---- MODULE Spec2Model ----
(***************************************************************************)
(* A model of the NFA ShotGrid Project Creator: the ProjectCreatorModel    *)
(* (validation, supervisor list, remote writes), the two worker threads    *)
(* and the ProjectCreatorController slots that drive them.                 *)
(*                                                                         *)
(* A Python str is a sequence of one-character strings: "p1" is            *)
(* <<"p", "1">>.  None is the empty sequence where a value may be absent   *)
(* (find_one's result, user_information), so an optional value v is <<>>   *)
(* or <<v>>.                                                               *)
(***************************************************************************)
EXTENDS Integers, Sequences, FiniteSets, TLC

VARIABLES
    screen,                 \* the widget the view shows: which slots can run
    project_information,    \* ProjectCreatorModel.project_information
    user_information,       \* ProjectCreatorModel.user_information, <<>> until set
    projects,               \* ProjectCreatorModel.projects (name snapshot), <<>> until set
    project_codes,          \* ProjectCreatorModel.project_codes (code snapshot), <<>> until set
    project_code_lineedit,  \* view.project_code_lineedit.text()
    shotgrid_connection,    \* whether ProjectCreatorModel.shotgrid_connection is set
    remote,                 \* the ShotGrid site: people's permission groups, created records
    threads,                \* the two worker threads: position, and locals of create_project
    calls,                  \* the remote writes issued so far, in order
    emitted,                \* the signals the worker threads emitted, in order
    pending,                \* the emitted signals whose slot has not run yet
    last,                   \* the last model operation run, its argument, what it raised
    input                   \* the argument of a method called directly; <<>> in a session

vars == <<screen, project_information, user_information, projects, project_codes,
          project_code_lineedit, shotgrid_connection, remote, threads, calls,
          emitted, pending, last, input>>

----------------------------------------------------------------------------
(* Characters and strings *)

LowerSeq == <<"a","b","c","d","e","f","g","h","i","j","k","l","m",
              "n","o","p","q","r","s","t","u","v","w","x","y","z">>

UpperSeq == <<"A","B","C","D","E","F","G","H","I","J","K","L","M",
              "N","O","P","Q","R","S","T","U","V","W","X","Y","Z">>

DigitSeq == <<"0","1","2","3","4","5","6","7","8","9">>

Range(f) == {f[i] : i \in DOMAIN f}

\* str.lower() of one character
LowerChar(c) ==
    IF c \in Range(UpperSeq)
    THEN LowerSeq[CHOOSE i \in DOMAIN UpperSeq : UpperSeq[i] = c]
    ELSE c

\* str.lower()
Lower(s) == [i \in DOMAIN s |-> LowerChar(s[i])]

\* re.match("^[class]*$", s) when atLeast = 0 and re.match("^[class]+$", s)
\* when atLeast = 1: the class repeated, then "$", which Python matches at
\* the end of the string and also just before a newline that ends the string.
ReMatch(class, atLeast, s) ==
    \E p \in atLeast..Len(s) :
        /\ \A i \in 1..p : s[i] \in class
        /\ \/ p = Len(s)
           \/ p = Len(s) - 1 /\ s[Len(s)] = "\n"

\* Whether sub occurs in s (the "contains" filter of a find)
Contains(s, sub) ==
    \E i \in 0..(Len(s) - Len(sub)) : SubSeq(s, i + 1, i + Len(sub)) = sub

----------------------------------------------------------------------------
(* ValidationError messages *)

NoError == "none"
MsgNameEmpty == "You must fill in a project name"
MsgNameIllegal == "Project name may only use lowercase a-z and underscores."
MsgNameTaken == "Project name already taken."
MsgCodeProduction == "Production code should start with a p and contain 5 numbers."
MsgCodeThreeLetter == "Three-letter code should only use letters a-z."
MsgCodeMore == "Project code uses more characters than allowed."
MsgCodeLess == "Project code uses less characters than allowed."
MsgCodeTaken == "Project code already taken."
MsgSupervisorNotFound == "Could not find supervisor name in ShotGrid database."
MsgSupervisorAdded == "This supervisor has already been added."
MsgSupervisorNotOnList == "Can't remove because supervisor isn't on the list."
MsgNoSupervisors == "You haven't yet added any supervisors."

----------------------------------------------------------------------------
(* ProjectCreatorModel: the draft and its validation.  A method is an      *)
(* operator from the draft (and what else it reads) to the draft it leaves *)
(* and the message of the ValidationError it raised, NoError if none.      *)

\* ProjectCreatorModel.__init__
InitialProjectInformation ==
    [username |-> <<>>,
     project_name |-> <<>>,
     has_production_code |-> TRUE,
     project_code |-> <<>>,
     has_other_supervisors |-> FALSE,
     supervisor_list |-> <<>>,
     render_engine |-> "All",
     project_type |-> "Fiction",
     project_fps |-> 25]

NameLegalCharacters == Range(LowerSeq) \cup {"_"}

\* validate_project_name storing the name only once it has passed
validate_project_name_stored_when_valid(pi, names, project_name) ==
    LET error == IF Len(project_name) = 0 THEN MsgNameEmpty
                 ELSE IF ~ReMatch(NameLegalCharacters, 0, project_name) THEN MsgNameIllegal
                 ELSE IF project_name \in names THEN MsgNameTaken
                 ELSE NoError
    IN  [pi |-> IF error = NoError THEN [pi EXCEPT !.project_name = project_name] ELSE pi,
         error |-> error]

validate_project_name(pi, names, project_name) ==
    LET stored == [pi EXCEPT !.project_name = project_name]
        error == IF Len(project_name) = 0 THEN MsgNameEmpty
                 ELSE IF ~ReMatch(NameLegalCharacters, 0, project_name) THEN MsgNameIllegal
                 ELSE IF project_name \in names THEN MsgNameTaken
                 ELSE NoError
    IN  [pi |-> stored, error |-> error]

ProductionLegalCharacters == {"P", "p"} \cup Range(DigitSeq)

ThreeLetterLegalCharacters == Range(UpperSeq) \cup Range(LowerSeq)

ProductionCodeLength == 6

ThreeLetterCodeLength == 3

\* validate_project_code with the production grammar whatever the flag
validate_project_code_ignoring_flag(pi, codes, project_code) ==
    LET stored == [pi EXCEPT !.project_code = Lower(project_code)]
        error == IF ~ReMatch(ProductionLegalCharacters, 1, project_code)
                 THEN MsgCodeProduction
                 ELSE IF Len(project_code) # ProductionCodeLength
                      THEN (IF Len(project_code) > ProductionCodeLength
                            THEN MsgCodeMore ELSE MsgCodeLess)
                 ELSE IF Lower(project_code) \in codes THEN MsgCodeTaken
                 ELSE NoError
    IN  [pi |-> stored, error |-> error]

validate_project_code(pi, codes, project_code) ==
    LET stored == [pi EXCEPT !.project_code = Lower(project_code)]
        legal_characters == IF pi.has_production_code THEN ProductionLegalCharacters
                            ELSE ThreeLetterLegalCharacters
        code_length == IF pi.has_production_code THEN ProductionCodeLength
                       ELSE ThreeLetterCodeLength
        legal_character_warning == IF pi.has_production_code THEN MsgCodeProduction
                                   ELSE MsgCodeThreeLetter
        error == IF ~ReMatch(legal_characters, 1, project_code) THEN legal_character_warning
                 ELSE IF Len(project_code) # code_length
                      THEN (IF Len(project_code) > code_length THEN MsgCodeMore ELSE MsgCodeLess)
                 ELSE IF Lower(project_code) \in codes THEN MsgCodeTaken
                 ELSE NoError
    IN  [pi |-> stored, error |-> error]

\* set_has_production_code dropping the code of the other grammar
set_has_production_code_clearing_code(pi, has_code) ==
    [pi EXCEPT !.has_production_code = has_code, !.project_code = <<>>]

set_has_production_code(pi, has_code) ==
    [pi EXCEPT !.has_production_code = has_code]

\* set_render_engine putting the project type back to its default
set_render_engine_and_type(pi, render_engine) ==
    [pi EXCEPT !.render_engine = render_engine, !.project_type = "Fiction"]

set_render_engine(pi, render_engine) == [pi EXCEPT !.render_engine = render_engine]

set_project_type(pi, project_type) == [pi EXCEPT !.project_type = project_type]

set_fps(pi, fps) == [pi EXCEPT !.project_fps = fps]

\* validate_project with the code validated before the name
validate_project_code_first(pi, names, codes) ==
    LET c == validate_project_code(pi, codes, pi.project_code)
        n == validate_project_name(c.pi, names, c.pi.project_name)
    IN  IF c.error # NoError THEN c
        ELSE IF n.error # NoError THEN n
        ELSE IF Len(n.pi.supervisor_list) = 0 THEN [pi |-> n.pi, error |-> MsgNoSupervisors]
        ELSE [pi |-> n.pi, error |-> NoError]

\* validate_project: the name, then the code (each on the stored value, and
\* each storing it again), then the supervisor list; the first raise ends it.
validate_project(pi, names, codes) ==
    LET n == validate_project_name(pi, names, pi.project_name)
        c == validate_project_code(n.pi, codes, n.pi.project_code)
    IN  IF n.error # NoError THEN n
        ELSE IF c.error # NoError THEN c
        ELSE IF Len(c.pi.supervisor_list) = 0 THEN [pi |-> c.pi, error |-> MsgNoSupervisors]
        ELSE [pi |-> c.pi, error |-> NoError]

----------------------------------------------------------------------------
(* The ShotGrid site.  Its people are fixed for a session; a person's      *)
(* permission group is what an update call changes.  A find returns the    *)
(* matching records in id order, so find_one returns the lowest id.        *)

Artist == "Artist"
Supervisor == "Supervisor"
Manager == "Manager"
\* a person record whose permission_rule_set is None
NoRuleSet == "None"

SupervisorRuleSetId == 190

\* HumanUser entities by id: display name, login, sg_lichting (<<>> is None)
HumanUsers ==
    <<[name |-> <<"a","b">>, login |-> <<"x">>, sg_lichting |-> <<"L","2","0","2","6">>],
      [name |-> <<"a">>,     login |-> <<"y">>, sg_lichting |-> <<"L","2","0","2","5">>],
      [name |-> <<"c">>,     login |-> <<"a">>, sg_lichting |-> <<>>]>>

UserIds == DOMAIN HumanUsers

\* The permission groups the people may hold when the session starts
InitialRuleSets ==
    {<<Artist, Artist, Supervisor>>,
     <<Manager, Artist, Supervisor>>,
     <<Artist, NoRuleSet, Supervisor>>}

Min(S) == CHOOSE x \in S : \A y \in S : x <= y

\* The record a find_one on HumanUser returns, with fields_to_retrieve
UserObject(r, id) ==
    [type |-> "HumanUser",
     id |-> id,
     name |-> HumanUsers[id].name,
     sg_lichting |-> HumanUsers[id].sg_lichting,
     permission_rule_set |-> r.rule_set[id]]

\* get_shotgrid_user with the login lookup before the name lookup
get_shotgrid_user_login_first(r, username) ==
    LET name_search == {id \in UserIds : Contains(HumanUsers[id].name, username)}
        login_search == {id \in UserIds : HumanUsers[id].login = username}
    IN  IF login_search # {} THEN <<UserObject(r, Min(login_search))>>
        ELSE IF name_search # {} THEN <<UserObject(r, Min(name_search))>>
        ELSE <<>>

\* get_shotgrid_user: the name lookup, and the login lookup only if the
\* name lookup found nobody; <<>> is None.
get_shotgrid_user(r, username) ==
    LET name_search == {id \in UserIds : Contains(HumanUsers[id].name, username)}
        login_search == {id \in UserIds : HumanUsers[id].login = username}
    IN  IF name_search # {} THEN <<UserObject(r, Min(name_search))>>
        ELSE IF login_search # {} THEN <<UserObject(r, Min(login_search))>>
        ELSE <<>>

\* x in list
InList(x, list) == \E i \in DOMAIN list : list[i] = x

\* list.remove(x): the first occurrence goes
ListRemove(list, x) ==
    LET i == Min({j \in DOMAIN list : list[j] = x})
    IN  SubSeq(list, 1, i - 1) \o SubSeq(list, i + 1, Len(list))

\* add_supervisor without the look at the list
add_supervisor_unchecked(pi, r, supervisor_name) ==
    LET supervisor_user_object == get_shotgrid_user(r, supervisor_name)
    IN  IF supervisor_user_object = <<>>
        THEN [pi |-> pi, error |-> MsgSupervisorNotFound, result |-> <<>>]
        ELSE [pi |-> [pi EXCEPT !.supervisor_list = Append(@, supervisor_user_object[1])],
              error |-> NoError,
              result |-> supervisor_user_object[1].name]

\* add_supervisor; result is the returned name, <<>> when it raised
add_supervisor(pi, r, supervisor_name) ==
    LET supervisor_user_object == get_shotgrid_user(r, supervisor_name)
    IN  IF supervisor_user_object = <<>>
        THEN [pi |-> pi, error |-> MsgSupervisorNotFound, result |-> <<>>]
        ELSE IF InList(supervisor_user_object[1], pi.supervisor_list)
        THEN [pi |-> pi, error |-> MsgSupervisorAdded, result |-> <<>>]
        ELSE [pi |-> [pi EXCEPT !.supervisor_list = Append(@, supervisor_user_object[1])],
              error |-> NoError,
              result |-> supervisor_user_object[1].name]

\* remove_supervisor taking the first of the list whoever was found
remove_supervisor_first(pi, r, supervisor_name) ==
    LET supervisor_user_object == get_shotgrid_user(r, supervisor_name)
    IN  IF supervisor_user_object = <<>> \/ ~InList(supervisor_user_object[1], pi.supervisor_list)
        THEN [pi |-> pi, error |-> MsgSupervisorNotOnList]
        ELSE [pi |-> [pi EXCEPT !.supervisor_list = Tail(@)], error |-> NoError]

\* remove_supervisor: None is not in the list either
remove_supervisor(pi, r, supervisor_name) ==
    LET supervisor_user_object == get_shotgrid_user(r, supervisor_name)
    IN  IF supervisor_user_object = <<>> \/ ~InList(supervisor_user_object[1], pi.supervisor_list)
        THEN [pi |-> pi, error |-> MsgSupervisorNotOnList]
        ELSE [pi |-> [pi EXCEPT !.supervisor_list = ListRemove(@, supervisor_user_object[1])],
              error |-> NoError]

----------------------------------------------------------------------------
(* The acting user *)

RECURSIVE DigitsToInt(_)
\* int() of a string of decimal digits
DigitsToInt(s) ==
    IF Len(s) = 0 THEN 0
    ELSE 10 * DigitsToInt(SubSeq(s, 1, Len(s) - 1))
         + (CHOOSE i \in DOMAIN DigitSeq : DigitSeq[i] = s[Len(s)]) - 1

\* get_student_graduation_year: int(sg_lichting[1:]); raised when the tag is
\* None or what follows its first character is not a number
get_student_graduation_year(shotgrid_user) ==
    LET tag == shotgrid_user.sg_lichting
        digits == SubSeq(tag, 2, Len(tag))
    IN  IF Len(digits) = 0 \/ \E i \in DOMAIN digits : digits[i] \notin Range(DigitSeq)
        THEN [raised |-> TRUE, year |-> 0]
        ELSE [raised |-> FALSE, year |-> DigitsToInt(digits)]

DaysInYear(y) == IF y % 4 = 0 /\ (y % 100 # 0 \/ y % 400 = 0) THEN 366 ELSE 365

CorrectionDays == 120

\* The year of now + timedelta(days=120); now is a year and a day of it
CorrectedYear(now) ==
    IF now.day + CorrectionDays > DaysInYear(now.year) THEN now.year + 1 ELSE now.year

MaxStudentYear == 4

\* get_current_student_year with a clamp at the first year as well
get_current_student_year_clamped(graduation_year, now) ==
    LET to_graduation_year == graduation_year - CorrectedYear(now)
        student_year == MaxStudentYear - to_graduation_year
    IN  IF student_year > MaxStudentYear THEN MaxStudentYear
        ELSE IF student_year < 1 THEN 1 ELSE student_year

get_current_student_year(graduation_year, now) ==
    LET to_graduation_year == graduation_year - CorrectedYear(now)
        student_year == MaxStudentYear - to_graduation_year
    IN  IF student_year > MaxStudentYear THEN MaxStudentYear ELSE student_year

\* set_user_information: the new user_information, unchanged when it raised
set_user_information(ui, shotgrid_user, now) ==
    LET graduation == get_student_graduation_year(shotgrid_user)
    IN  IF graduation.raised THEN ui
        ELSE <<[sg_username |-> shotgrid_user.name,
                sg_user_id |-> shotgrid_user.id,
                student_year |-> get_current_student_year(graduation.year, now),
                student_graduation_year |-> graduation.year]>>

----------------------------------------------------------------------------
(* Inputs: what the user types and picks, what the site holds and answers *)

\* Project names typed in a session: a taken one, a legal one (the line
\* edit starts empty)
NameInputs == {<<"a">>, <<"b","_">>}

\* Project codes typed in a session: a production code, a three-letter code
CodeInputs == {<<"P","1","2","3","4","5">>, <<"a","b","d">>}

\* The supervisor line edit in a session: the first two people, the first
\* under two texts, and nobody
SupervisorInputs == {<<"a">>, <<"a","b">>, <<"y">>, <<"q">>}

\* os.getlogin() and the username line edit: the first person, the third
\* (who has no sg_lichting), nobody
UsernameInputs == {<<"a">>, <<"c">>, <<"q">>}

\* Every text that finds somebody, by name or by login, and one that does not
Identifiers == {<<"a">>, <<"a","b">>, <<"b">>, <<"c">>, <<"x">>, <<"y">>, <<"q">>}

RenderEngines == {"All", "Arnold"}

FpsInputs == {24, 25}

\* datetime.datetime.now() in a session: a year and the day of that year
Nows == {[year |-> 2024, day |-> 300]}

\* The Project names and codes on the site when the session connects
SiteProjectNames == {<<"a">>}
SiteProjectCodes == {<<"p","1","1","1","1","1">>, <<"a","b","c">>}

\* str(error) of what a remote call raises
RemoteFaults == {"Fault", "ProtocolError"}

MsgNoPermissionRuleSet == "'NoneType' object has no attribute 'get'"
MsgNoUserInformation == "'ProjectCreatorModel' object has no attribute 'user_information'"

\* How many ids the site may hand to a created Project
MaxProjectId == 2

----------------------------------------------------------------------------
(* State *)

NotStarted == "not_started"

InitialThreads ==
    [shotgrid_connection_thread |-> NotStarted,
     project_creation_thread |-> NotStarted,
     formatted_supervisors_list |-> <<>>,
     i |-> 0,
     project_id |-> <<>>]

NoOperation == [op |-> "none", arg |-> <<>>, error |-> NoError]

Init ==
    /\ screen = "start"
    /\ project_information = InitialProjectInformation
    /\ user_information = <<>>
    /\ projects = <<>>
    /\ project_codes = <<>>
    /\ project_code_lineedit = <<>>
    /\ shotgrid_connection = FALSE
    /\ \E rs \in InitialRuleSets :
           remote = [rule_set |-> rs, projects |-> <<>>, pipeline_configurations |-> <<>>]
    /\ threads = InitialThreads
    /\ calls = <<>>
    /\ emitted = <<>>
    /\ pending = <<>>
    /\ last = NoOperation
    /\ input = <<>>

\* Signal.emit: the slot runs later, on the control thread
Emit(signal, error, url) ==
    LET e == [signal |-> signal, error |-> error, url |-> url]
    IN  /\ emitted' = Append(emitted, e)
        /\ pending' = Append(pending, e)

----------------------------------------------------------------------------
(* Connecting: controller.connect_to_shotgrid, ShotGridConnectionThread,   *)
(* and the slots of its two signals                                        *)

\* The start button: the start widget goes, the connection thread starts
controller_connect_to_shotgrid ==
    /\ screen = "start"
    /\ screen' = "loading"
    /\ threads' = [threads EXCEPT !.shotgrid_connection_thread = "running"]
    /\ UNCHANGED <<project_information, user_information, projects, project_codes,
                   project_code_lineedit, shotgrid_connection, remote, calls,
                   emitted, pending, last, input>>

\* ShotGridConnectionThread.run: create_shotgrid_connection opens the
\* session and reads the users, the project names and the project codes; a
\* raise at any of the four leaves what was set before it.
ShotGridConnectionThread_run ==
    /\ threads.shotgrid_connection_thread = "running"
    /\ threads' = [threads EXCEPT !.shotgrid_connection_thread = "finished"]
    /\ \/ /\ shotgrid_connection' = TRUE
          /\ projects' = <<SiteProjectNames>>
          /\ project_codes' = <<SiteProjectCodes>>
          /\ Emit("shotgrid_connection_successful", NoError, <<>>)
       \/ \E fault \in RemoteFaults, step \in {"Shotgun", "users", "projects", "codes"} :
             /\ shotgrid_connection' = (step # "Shotgun")
             /\ projects' = IF step = "codes" THEN <<SiteProjectNames>> ELSE <<>>
             /\ project_codes' = <<>>
             /\ Emit("shotgrid_connection_failed", fault, <<>>)
    /\ UNCHANGED <<screen, project_information, user_information,
                   project_code_lineedit, remote, calls, last, input>>

\* Slot shotgrid_connection_successful: find_username.  The computer's
\* account name is looked up; a user found is stored and the main widget
\* shown (nothing is shown if set_user_information raises), else the
\* username widget.
controller_shotgrid_connection_successful ==
    /\ pending # <<>>
    /\ Head(pending).signal = "shotgrid_connection_successful"
    /\ pending' = Tail(pending)
    /\ \E login \in UsernameInputs, now \in Nows :
          LET shotgrid_user == get_shotgrid_user(remote, login)
          IN  IF shotgrid_user # <<>>
              THEN /\ user_information' =
                          set_user_information(user_information, shotgrid_user[1], now)
                   /\ screen' = IF get_student_graduation_year(shotgrid_user[1]).raised
                                THEN "blank" ELSE "main"
              ELSE /\ screen' = "username"
                   /\ UNCHANGED user_information
    /\ UNCHANGED <<project_information, projects, project_codes, project_code_lineedit,
                   shotgrid_connection, remote, threads, calls, emitted, last, input>>

\* A slot shotgrid_connection_failed that shows the start widget again
controller_shotgrid_connection_failed_back_to_start ==
    /\ pending # <<>>
    /\ Head(pending).signal = "shotgrid_connection_failed"
    /\ pending' = Tail(pending)
    /\ screen' = "start"
    /\ UNCHANGED <<project_information, user_information, projects, project_codes,
                   project_code_lineedit, shotgrid_connection, remote, threads, calls,
                   emitted, last, input>>

\* A slot shotgrid_connection_failed that goes on to the main widget
controller_shotgrid_connection_failed_to_main ==
    /\ pending # <<>>
    /\ Head(pending).signal = "shotgrid_connection_failed"
    /\ pending' = Tail(pending)
    /\ screen' = "main"
    /\ UNCHANGED <<project_information, user_information, projects, project_codes,
                   project_code_lineedit, shotgrid_connection, remote, threads, calls,
                   emitted, last, input>>

\* Slot shotgrid_connection_failed: the error widget, for good
controller_shotgrid_connection_failed ==
    /\ pending # <<>>
    /\ Head(pending).signal = "shotgrid_connection_failed"
    /\ pending' = Tail(pending)
    /\ screen' = "connection_error"
    /\ UNCHANGED <<project_information, user_information, projects, project_codes,
                   project_code_lineedit, shotgrid_connection, remote, threads, calls,
                   emitted, last, input>>

\* The continue button of the username widget.  A user found: the main
\* widget is shown and connected, and only then is the user stored.
controller_validate_username(text) ==
    /\ screen = "username"
    /\ \E now \in Nows :
          LET shotgrid_user == get_shotgrid_user(remote, text)
          IN  IF shotgrid_user = <<>>
              THEN UNCHANGED <<screen, user_information>>
              ELSE /\ screen' = "main"
                   /\ user_information' =
                          set_user_information(user_information, shotgrid_user[1], now)
    /\ UNCHANGED <<project_information, projects, project_codes, project_code_lineedit,
                   shotgrid_connection, remote, threads, calls, emitted, pending, last, input>>

----------------------------------------------------------------------------
(* The slots of the main widget (connect_view_functions) *)

\* What a slot of the main widget leaves alone besides the draft
MainFrame ==
    UNCHANGED <<screen, user_information, projects, project_codes, shotgrid_connection,
                remote, threads, calls, emitted, pending, input>>

controller_validate_project_name(project_name) ==
    /\ screen = "main"
    /\ LET r == validate_project_name(project_information, projects[1], project_name)
       IN  /\ project_information' = r.pi
           /\ last' = [op |-> "validate_project_name", arg |-> project_name,
                       error |-> r.error]
    /\ UNCHANGED project_code_lineedit
    /\ MainFrame

\* textChanged of the project code line edit
controller_validate_project_code(project_code) ==
    /\ screen = "main"
    /\ project_code_lineedit' = project_code
    /\ LET r == validate_project_code(project_information, project_codes[1], project_code)
       IN  /\ project_information' = r.pi
           /\ last' = [op |-> "validate_project_code", arg |-> project_code,
                       error |-> r.error]
    /\ MainFrame

\* set_production_code_yes (has_code) and set_production_code_no: the flag
\* is set and the text of the line edit validated again
controller_set_production_code(has_code) ==
    /\ screen = "main"
    /\ LET r == validate_project_code(
                    set_has_production_code(project_information, has_code),
                    project_codes[1], project_code_lineedit)
       IN  /\ project_information' = r.pi
           /\ last' = [op |-> "validate_project_code", arg |-> project_code_lineedit,
                       error |-> r.error]
    /\ UNCHANGED project_code_lineedit
    /\ MainFrame

controller_add_supervisor(text) ==
    /\ screen = "main"
    /\ LET r == add_supervisor(project_information, remote, text)
       IN  /\ project_information' = r.pi
           /\ last' = [op |-> "add_supervisor", arg |-> text, error |-> r.error]
    /\ UNCHANGED project_code_lineedit
    /\ MainFrame

controller_remove_supervisor(text) ==
    /\ screen = "main"
    /\ LET r == remove_supervisor(project_information, remote, text)
       IN  /\ project_information' = r.pi
           /\ last' = [op |-> "remove_supervisor", arg |-> text, error |-> r.error]
    /\ UNCHANGED project_code_lineedit
    /\ MainFrame

controller_set_render_engine(render_engine) ==
    /\ screen = "main"
    /\ project_information' = set_render_engine(project_information, render_engine)
    /\ last' = [op |-> "set_render_engine", arg |-> <<>>, error |-> NoError]
    /\ UNCHANGED project_code_lineedit
    /\ MainFrame

\* set_project_type_fiction and set_project_type_documentary
controller_set_project_type(project_type) ==
    /\ screen = "main"
    /\ project_information' = set_project_type(project_information, project_type)
    /\ last' = [op |-> "set_project_type", arg |-> <<>>, error |-> NoError]
    /\ UNCHANGED project_code_lineedit
    /\ MainFrame

controller_set_fps(fps) ==
    /\ screen = "main"
    /\ project_information' = set_fps(project_information, fps)
    /\ last' = [op |-> "set_fps", arg |-> <<>>, error |-> NoError]
    /\ UNCHANGED project_code_lineedit
    /\ MainFrame

\* The order with the Project created before the loop over the supervisors
create_project_step_after_project_first(step, i, n) ==
    CASE step = "start" -> "project"
      [] step = "project" -> IF n = 0 THEN "pipeline" ELSE "supervisors"
      [] step = "supervisors" -> IF i >= n THEN "pipeline" ELSE "supervisors"
      [] OTHER -> "finished"

\* The order of create_project's statements: where the thread goes after
\* step, i being the supervisor whose turn of the loop it was and n the
\* length of the supervisor list
create_project_step_after(step, i, n) ==
    CASE step = "start" -> IF n = 0 THEN "project" ELSE "supervisors"
      [] step = "supervisors" -> IF i >= n THEN "project" ELSE "supervisors"
      [] step = "project" -> "pipeline"
      [] OTHER -> "finished"

\* start_project_creation: a new ProjectCreationThread, started
start_project_creation(t, n) ==
    [t EXCEPT !.project_creation_thread = create_project_step_after("start", 0, n),
              !.formatted_supervisors_list = <<>>,
              !.i = 1]

\* The create project button starting the thread whatever validate_project raised
controller_create_project_unvalidated ==
    /\ screen = "main"
    /\ LET r == validate_project(project_information, projects[1], project_codes[1])
       IN  /\ project_information' = r.pi
           /\ last' = [op |-> "validate_project", arg |-> <<>>, error |-> r.error]
           /\ screen' = "creating"
           /\ threads' = start_project_creation(threads, Len(r.pi.supervisor_list))
    /\ UNCHANGED <<user_information, projects, project_codes, project_code_lineedit,
                   shotgrid_connection, remote, calls, emitted, pending, input>>

\* The create project button: validate_project, and only if it raised
\* nothing the main widget goes and the creation thread starts
controller_create_project ==
    /\ screen = "main"
    /\ LET r == validate_project(project_information, projects[1], project_codes[1])
       IN  /\ project_information' = r.pi
           /\ last' = [op |-> "validate_project", arg |-> <<>>, error |-> r.error]
           /\ IF r.error # NoError
              THEN UNCHANGED <<screen, threads>>
              ELSE /\ screen' = "creating"
                   /\ threads' = start_project_creation(threads,
                                             Len(r.pi.supervisor_list))
    /\ UNCHANGED <<user_information, projects, project_codes, project_code_lineedit,
                   shotgrid_connection, remote, calls, emitted, pending, input>>

----------------------------------------------------------------------------
(* ProjectCreationThread.run: create_project, one action for each remote   *)
(* call it may make.  A remote write returns, or raises and changes        *)
(* nothing on the site; run emits the failure with str(error) and ends.    *)

\* An entry of calls: a write sent to the site, and str(error) of what it
\* raised, NoError if it returned
RemoteCall(method, entity_type, entity_id, data, raised) ==
    [method |-> method, entity_type |-> entity_type, entity_id |-> entity_id,
     data |-> data, raised |-> raised]

SupervisorPermissionConfiguration ==
    [permission_rule_set |->
        [id |-> SupervisorRuleSetId, name |-> Supervisor, type |-> "PermissionRuleSet"]]

\* add_supervisor_permissions_to_user updating whoever is not a Supervisor
add_supervisor_permissions_to_user_unless_supervisor(shotgrid_user) ==
    IF shotgrid_user.permission_rule_set = NoRuleSet
    THEN [raised |-> TRUE, updates |-> <<>>]
    ELSE IF shotgrid_user.permission_rule_set # Supervisor
    THEN [raised |-> FALSE,
          updates |-> <<[entity_id |-> shotgrid_user.id,
                         data |-> SupervisorPermissionConfiguration]>>]
    ELSE [raised |-> FALSE, updates |-> <<>>]

\* add_supervisor_permissions_to_user: the update calls it makes for the
\* user object (none or one), or raised when the object has no rule set
add_supervisor_permissions_to_user(shotgrid_user) ==
    IF shotgrid_user.permission_rule_set = NoRuleSet
    THEN [raised |-> TRUE, updates |-> <<>>]
    ELSE IF shotgrid_user.permission_rule_set = Artist
    THEN [raised |-> FALSE,
          updates |-> <<[entity_id |-> shotgrid_user.id,
                         data |-> SupervisorPermissionConfiguration]>>]
    ELSE [raised |-> FALSE, updates |-> <<>>]

\* The entry get_formatted_supervisors_list makes for a supervisor
FormattedSupervisor(supervisor) == [id |-> supervisor.id, type |-> "HumanUser"]

get_pipeline_configuration_string(student_year) ==
    <<"sgtk:descriptor:git_branch?branch=release/s", student_year,
      "&path=https://github.com/nfa-vfxim/nfa-shotgun-configuration.git">>

\* project_data with the supervisors under users only
ProjectDataUsersOnly(pi, ui, formatted_supervisors_list) ==
    [name |-> pi.project_name,
     tank_name |-> pi.project_name,
     sg_projectcode |-> pi.project_code,
     users |-> formatted_supervisors_list,
     sg_supervisors |-> <<>>,
     sg_render_engine |-> pi.render_engine,
     sg_type |-> pi.project_type,
     sg_lichting |-> <<"L", ui.student_graduation_year>>,
     sg_fps |-> pi.project_fps,
     sg_status |-> "Active"]

\* project_data of create_project
ProjectData(pi, ui, formatted_supervisors_list) ==
    [name |-> pi.project_name,
     tank_name |-> pi.project_name,
     sg_projectcode |-> pi.project_code,
     users |-> formatted_supervisors_list,
     sg_supervisors |-> formatted_supervisors_list,
     sg_render_engine |-> pi.render_engine,
     sg_type |-> pi.project_type,
     sg_lichting |-> <<"L", ui.student_graduation_year>>,
     sg_fps |-> pi.project_fps,
     sg_status |-> "Active"]

\* pipeline_configuration_data with the user's id where the project's belongs
PipelineConfigurationDataOfUser(ui, project_id) ==
    [code |-> "Primary",
     descriptor |-> get_pipeline_configuration_string(ui.student_year),
     plugin_ids |-> "basic.*",
     project |-> [id |-> ui.sg_user_id + MaxProjectId, type |-> "Project"],
     sg_lichting |-> <<"s", ui.student_year>>]

\* pipeline_configuration_data of create_project
PipelineConfigurationData(ui, project_id) ==
    [code |-> "Primary",
     descriptor |-> get_pipeline_configuration_string(ui.student_year),
     plugin_ids |-> "basic.*",
     project |-> [id |-> project_id, type |-> "Project"],
     sg_lichting |-> <<"s", ui.student_year>>]

\* The value create_project returns
ProjectUrl(project_id) ==
    <<"https://nfa.shotgunstudio.com/page/project_overview?project_id=", project_id>>

\* An except branch that undoes what the submission did on the site
ThreadFailedRollback(error, issued) ==
    /\ threads' = [threads EXCEPT !.project_creation_thread = "finished"]
    /\ calls' = issued \o
                  [i \in 1..Len(remote.projects) |->
                      RemoteCall("delete", "Project", remote.projects[i].id,
                                 remote.projects[i].data, NoError)]
    /\ remote' = [remote EXCEPT
                     !.projects = <<>>,
                     !.rule_set = [id \in UserIds |->
                         IF \E i \in DOMAIN issued :
                                /\ issued[i].method = "update"
                                /\ issued[i].entity_id = id
                                /\ issued[i].raised = NoError
                         THEN Artist ELSE remote.rule_set[id]]]
    /\ Emit("project_creation_failed", error, <<>>)

\* An except branch inside create_project: the failure is emitted and the
\* statement that raised is run again
ThreadFailedRetry(error, issued) ==
    /\ UNCHANGED threads
    /\ calls' = issued
    /\ remote' = remote
    /\ Emit("project_creation_failed", error, <<>>)

\* An except branch that swallows the error: the thread ends, nothing is
\* emitted
ThreadFailedSilently(error, issued) ==
    /\ threads' = [threads EXCEPT !.project_creation_thread = "finished"]
    /\ calls' = issued
    /\ remote' = remote
    /\ UNCHANGED <<emitted, pending>>

\* run's except branch: issued is calls with the call that raised, if it
\* was a remote call; nothing else is sent and the thread ends
ThreadFailed(error, issued) ==
    /\ threads' = [threads EXCEPT !.project_creation_thread = "finished"]
    /\ calls' = issued
    /\ remote' = remote
    /\ Emit("project_creation_failed", error, <<>>)

ThreadFrame ==
    UNCHANGED <<screen, project_information, user_information, projects, project_codes,
                project_code_lineedit, shotgrid_connection, last, input>>

\* One turn of the loop of get_formatted_supervisors_list: the entry is
\* appended, then add_supervisor_permissions_to_user
create_project_supervisor ==
    /\ threads.project_creation_thread = "supervisors"
    /\ threads.i <= Len(project_information.supervisor_list)
    /\ LET supervisor == project_information.supervisor_list[threads.i]
           formatted == Append(threads.formatted_supervisors_list,
                               FormattedSupervisor(supervisor))
           permissions == add_supervisor_permissions_to_user(supervisor)
           continued == [threads EXCEPT
                            !.formatted_supervisors_list = formatted,
                            !.i = @ + 1,
                            !.project_creation_thread =
                                create_project_step_after("supervisors", threads.i,
                                    Len(project_information.supervisor_list))]
       IN  IF permissions.raised
           THEN ThreadFailed(MsgNoPermissionRuleSet, calls)
           ELSE IF permissions.updates = <<>>
           THEN /\ threads' = continued
                /\ UNCHANGED <<calls, remote, emitted, pending>>
           ELSE LET update == permissions.updates[1]
                IN  \/ /\ calls' = Append(calls, RemoteCall("update", "HumanUser",
                                              update.entity_id, update.data, NoError))
                       /\ remote' = [remote EXCEPT !.rule_set[update.entity_id] =
                                         update.data.permission_rule_set.name]
                       /\ threads' = continued
                       /\ UNCHANGED <<emitted, pending>>
                    \/ \E fault \in RemoteFaults :
                          ThreadFailed(fault,
                              Append(calls, RemoteCall("update", "HumanUser",
                                         update.entity_id, update.data, fault)))
    /\ ThreadFrame

\* project_data is built (it reads user_information) and the Project created
create_project_project ==
    /\ threads.project_creation_thread = "project"
    /\ IF user_information = <<>>
       THEN ThreadFailed(MsgNoUserInformation, calls)
       ELSE LET project_data == ProjectData(project_information, user_information[1],
                                            threads.formatted_supervisors_list)
            IN  \/ \E id \in 1..MaxProjectId :
                      /\ calls' = Append(calls,
                                     RemoteCall("create", "Project", 0, project_data, NoError))
                      /\ remote' = [remote EXCEPT !.projects =
                                        Append(@, [id |-> id, data |-> project_data])]
                      /\ threads' =
                            [threads EXCEPT
                                !.project_id = <<id>>,
                                !.project_creation_thread =
                                    create_project_step_after("project", threads.i,
                                        Len(project_information.supervisor_list))]
                      /\ UNCHANGED <<emitted, pending>>
                \/ \E fault \in RemoteFaults :
                      ThreadFailed(fault,
                          Append(calls, RemoteCall("create", "Project", 0, project_data, fault)))
    /\ ThreadFrame

\* The PipelineConfiguration is created for the id the Project got, the
\* URL returned and emitted
create_project_pipeline_configuration ==
    /\ threads.project_creation_thread = "pipeline"
    /\ LET project_id == threads.project_id[1]
           data == PipelineConfigurationData(user_information[1], project_id)
       IN  \/ /\ calls' = Append(calls,
                             RemoteCall("create", "PipelineConfiguration", 0, data, NoError))
              /\ remote' = [remote EXCEPT !.pipeline_configurations = Append(@, data)]
              /\ threads' = [threads EXCEPT !.project_creation_thread = "finished"]
              /\ Emit("project_creation_successful", NoError, ProjectUrl(project_id))
           \/ \E fault \in RemoteFaults :
                 ThreadFailed(fault,
                     Append(calls, RemoteCall("create", "PipelineConfiguration", 0, data, fault)))
    /\ ThreadFrame

\* Slot project_creation_successful: the widget with the link
controller_project_creation_successful ==
    /\ pending # <<>>
    /\ Head(pending).signal = "project_creation_successful"
    /\ pending' = Tail(pending)
    /\ screen' = "success"
    /\ UNCHANGED <<project_information, user_information, projects, project_codes,
                   project_code_lineedit, shotgrid_connection, remote, threads, calls,
                   emitted, last, input>>

\* A slot project_creation_failed that shows the main widget again
controller_project_creation_failed_back_to_main ==
    /\ pending # <<>>
    /\ Head(pending).signal = "project_creation_failed"
    /\ pending' = Tail(pending)
    /\ screen' = "main"
    /\ UNCHANGED <<project_information, user_information, projects, project_codes,
                   project_code_lineedit, shotgrid_connection, remote, threads, calls,
                   emitted, last, input>>

\* Slot project_creation_failed: the error widget
controller_project_creation_failed ==
    /\ pending # <<>>
    /\ Head(pending).signal = "project_creation_failed"
    /\ pending' = Tail(pending)
    /\ screen' = "error"
    /\ UNCHANGED <<project_information, user_information, projects, project_codes,
                   project_code_lineedit, shotgrid_connection, remote, threads, calls,
                   emitted, last, input>>

----------------------------------------------------------------------------
(* The session *)

TypeName == \E project_name \in NameInputs : controller_validate_project_name(project_name)

TypeCode == \E project_code \in CodeInputs : controller_validate_project_code(project_code)

ClickProductionCode == \E has_code \in BOOLEAN : controller_set_production_code(has_code)

ClickAddSupervisor == \E text \in SupervisorInputs : controller_add_supervisor(text)

ClickRemoveSupervisor == \E text \in SupervisorInputs : controller_remove_supervisor(text)

PickRenderEngine == \E render_engine \in RenderEngines : controller_set_render_engine(render_engine)

ClickProjectType ==
    \E project_type \in {"Fiction", "Documentary"} : controller_set_project_type(project_type)

PickFps == \E fps \in FpsInputs : controller_set_fps(fps)

ClickContinue == \E text \in UsernameInputs : controller_validate_username(text)

Next ==
    \/ controller_connect_to_shotgrid
    \/ ShotGridConnectionThread_run
    \/ controller_shotgrid_connection_successful
    \/ controller_shotgrid_connection_failed
    \/ ClickContinue
    \/ TypeName
    \/ TypeCode
    \/ ClickProductionCode
    \/ ClickAddSupervisor
    \/ ClickRemoveSupervisor
    \/ PickRenderEngine
    \/ ClickProjectType
    \/ PickFps
    \/ controller_create_project
    \/ create_project_supervisor
    \/ create_project_project
    \/ create_project_pipeline_configuration
    \/ controller_project_creation_successful
    \/ controller_project_creation_failed

Spec == Init /\ [][Next]_vars

----------------------------------------------------------------------------
(* Properties of a submission *)

UpdateCalls == {i \in DOMAIN calls : calls[i].method = "update"}

ProjectCalls ==
    {i \in DOMAIN calls : calls[i].method = "create" /\ calls[i].entity_type = "Project"}

PipelineCalls ==
    {i \in DOMAIN calls :
        calls[i].method = "create" /\ calls[i].entity_type = "PipelineConfiguration"}

RaisedCalls == {i \in DOMAIN calls : calls[i].raised # NoError}

\* The outcomes the creation thread reported
Successes == {i \in DOMAIN emitted : emitted[i].signal = "project_creation_successful"}

Failures == {i \in DOMAIN emitted : emitted[i].signal = "project_creation_failed"}

\* C1: the remote writes of a submission come in a fixed order: every
\* permission update (one has been sent for each supervisor recorded as
\* Artist by then) precedes the Project create, the Project create precedes
\* the PipelineConfiguration create, and success is reported only after the
\* PipelineConfiguration create has returned.
C1_WriteOrder ==
    /\ \A u \in UpdateCalls, c \in ProjectCalls : u < c
    /\ \A c \in ProjectCalls, q \in PipelineCalls : c < q
    /\ ProjectCalls # {} =>
          \A k \in DOMAIN project_information.supervisor_list :
              project_information.supervisor_list[k].permission_rule_set = Artist =>
                 \E u \in UpdateCalls :
                    calls[u].entity_id = project_information.supervisor_list[k].id
    /\ PipelineCalls # {} => \E c \in ProjectCalls : calls[c].raised = NoError
    /\ Successes # {} => \E q \in PipelineCalls : calls[q].raised = NoError

\* A submission that succeeded after two permission updates
C1_Witness == Successes # {} /\ Cardinality(UpdateCalls) = 2

\* C2: no remote write is sent for a draft validate_project fails on: once
\* the creation thread has been started or a write sent, the draft has a
\* name and a code that pass validation under the flag as it stands, and a
\* supervisor.
C2_WritesOnlyForValidDraft ==
    (threads.project_creation_thread # NotStarted \/ calls # <<>>) =>
        /\ validate_project_name(project_information, projects[1],
                                 project_information.project_name).error = NoError
        /\ validate_project_code(project_information, project_codes[1],
                                 project_information.project_code).error = NoError
        /\ Len(project_information.project_name) > 0
        /\ project_information.project_name \notin projects[1]
        /\ Len(project_information.project_code) =
              (IF project_information.has_production_code THEN 6 ELSE 3)
        /\ project_information.project_code \notin project_codes[1]
        /\ Len(project_information.supervisor_list) > 0

\* The first write of a submission has just been sent
C2_Witness == Len(calls) = 1 /\ calls[1].method = "update"

\* C3: a submission that ends in success has sent exactly one Project
\* create and one PipelineConfiguration create, the PipelineConfiguration
\* refers to the id the Project create returned, and the URL reported is
\* the project overview page of that id.
C3_SuccessIsOneProject ==
    Successes # {} =>
        /\ Cardinality(ProjectCalls) = 1
        /\ Cardinality(PipelineCalls) = 1
        /\ Cardinality(Successes) = 1
        /\ Len(remote.projects) = 1
        /\ \A q \in PipelineCalls :
              calls[q].data.project = [id |-> remote.projects[1].id, type |-> "Project"]
        /\ \A e \in Successes :
              emitted[e].url =
                 <<"https://nfa.shotgunstudio.com/page/project_overview?project_id=",
                   remote.projects[1].id>>

\* A submission that succeeded with the second id the site may give
C3_Witness == Successes # {} /\ remote.projects[1].id = MaxProjectId

\* C4: a submission is not transactional: every write sent is a permission
\* update to Supervisor or a create, never one that undoes an earlier one;
\* a permission update that returned stays applied and a Project that was
\* created stays, also after the submission failed.
C4_NoRollback ==
    /\ \A i \in DOMAIN calls :
          /\ calls[i].method \in {"update", "create"}
          /\ calls[i].method = "update" =>
                calls[i].data.permission_rule_set.name = Supervisor
    /\ \A u \in UpdateCalls :
          calls[u].raised = NoError => remote.rule_set[calls[u].entity_id] = Supervisor
    /\ \A c \in ProjectCalls :
          calls[c].raised = NoError =>
             \E k \in DOMAIN remote.projects : remote.projects[k].data = calls[c].data

\* A submission failed at the PipelineConfiguration create, after a
\* permission update and the Project create
C4_Witness ==
    /\ Failures # {}
    /\ \E q \in PipelineCalls : calls[q].raised # NoError
    /\ \E u \in UpdateCalls : calls[u].raised = NoError
    /\ Len(remote.projects) = 1

\* C5: a remote call that raised is the last call of the submission, and
\* the submission then reports one outcome, the failure with the error's
\* text; a submission reports at most one outcome, exactly one when its
\* thread has ended, and never success after a call raised.
C5_OneOutcome ==
    /\ Cardinality(Successes) + Cardinality(Failures) <= 1
    /\ \A i \in RaisedCalls : i = Len(calls)
    /\ RaisedCalls # {} =>
          /\ Successes = {}
          /\ \E e \in Failures : emitted[e].error = calls[Len(calls)].raised
    /\ threads.project_creation_thread = "finished" =>
          Cardinality(Successes) + Cardinality(Failures) = 1

\* The second write of a submission raised and the failure was emitted
C5_Witness ==
    /\ Len(calls) >= 2
    /\ calls[Len(calls)].raised # NoError
    /\ Failures # {}

----------------------------------------------------------------------------
(* The methods of the model called on their own.  Each specification       *)
(* below starts in a state of a session whose main widget is shown, with   *)
(* the argument of the method under study drawn in input.                  *)

\* Every string over alphabet of at most n characters
Strings(alphabet, n) == UNION {[1..k -> alphabet] : k \in 0..n}

MaxNameLen == 3

NameAlphabet == {"a", "_", "A", "1", "\n"}

\* Name snapshots a session may have read
NameSnapshots == {{<<"a">>, <<"a","_">>}}

MaxCodeLen == 7

MaxShortCodeLen == 3

\* Codes: long ones of p, P and a digit; short ones also with another
\* letter and a newline
CodeArguments ==
    Strings({"p", "P", "1"}, MaxCodeLen)
        \cup Strings({"p", "P", "1", "a", "\n"}, MaxShortCodeLen)

\* Code snapshots a session may have read: ShotGrid keeps a code as entered
CodeSnapshots ==
    {{<<"p","1","1","1","1","1">>, <<"p","p","p">>},
     {<<"P","P","P">>}}

\* The acting user of these sessions: the first person, found by os.getlogin()
FirstUserInformation ==
    set_user_information(<<>>, UserObject([rule_set |-> <<Artist, Artist, Supervisor>>], 1),
                         CHOOSE now \in Nows : TRUE)

\* A state of the main widget: the draft pi and the last operation l of a
\* session that has not submitted
MainWidgetShown(pi, l, names, codes, rule_set) ==
    /\ screen = "main"
    /\ project_information = pi
    /\ user_information = FirstUserInformation
    /\ projects = <<names>>
    /\ project_codes = <<codes>>
    /\ project_code_lineedit = <<>>
    /\ shotgrid_connection = TRUE
    /\ remote = [rule_set |-> rule_set, projects |-> <<>>, pipeline_configurations |-> <<>>]
    /\ threads = [InitialThreads EXCEPT !.shotgrid_connection_thread = "finished"]
    /\ calls = <<>>
    /\ emitted = <<[signal |-> "shotgrid_connection_successful", error |-> NoError,
                    url |-> <<>>]>>
    /\ pending = <<>>
    /\ last = l

\* A call of validate_project_name(input)
call_validate_project_name ==
    /\ LET r == validate_project_name(project_information, projects[1], input)
       IN  /\ project_information' = r.pi
           /\ last' = [op |-> "validate_project_name", arg |-> input, error |-> r.error]
    /\ UNCHANGED project_code_lineedit
    /\ MainFrame

\* A call of validate_project()
call_validate_project ==
    /\ LET r == validate_project(project_information, projects[1], project_codes[1])
       IN  /\ project_information' = r.pi
           /\ last' = [op |-> "validate_project", arg |-> <<>>, error |-> r.error]
    /\ UNCHANGED project_code_lineedit
    /\ MainFrame

InitName ==
    /\ input \in Strings(NameAlphabet, MaxNameLen)
    /\ \E names \in NameSnapshots :
          MainWidgetShown(InitialProjectInformation, NoOperation, names,
                          SiteProjectCodes, <<Artist, Artist, Supervisor>>)

NextName ==
    \/ call_validate_project_name
    \/ call_validate_project

\* validate_project_name on every name
SpecName == InitName /\ [][NextName]_vars

\* The draft after a free name was typed and a supervisor added
NamedAndSupervised ==
    add_supervisor(
        validate_project_name(InitialProjectInformation, SiteProjectNames, <<"b","_">>).pi,
        [rule_set |-> <<Artist, Artist, Supervisor>>], <<"a">>).pi

InitCode ==
    /\ input \in CodeArguments
    /\ \E codes \in CodeSnapshots :
          MainWidgetShown(NamedAndSupervised,
                          [op |-> "add_supervisor", arg |-> <<"a">>, error |-> NoError],
                          SiteProjectNames, codes, <<Artist, Artist, Supervisor>>)

NextCode ==
    \/ controller_validate_project_code(input)
    \/ \E has_code \in BOOLEAN : controller_set_production_code(has_code)
    \/ call_validate_project

\* validate_project_code on every code, under either flag
SpecCode == InitCode /\ [][NextCode]_vars

InitSupervisors ==
    /\ input = <<>>
    /\ \E rule_set \in InitialRuleSets :
          MainWidgetShown(InitialProjectInformation, NoOperation, SiteProjectNames,
                          SiteProjectCodes, rule_set)

NextSupervisors ==
    \/ \E text \in Identifiers : controller_add_supervisor(text)
    \/ \E text \in Identifiers : controller_remove_supervisor(text)

\* add_supervisor and remove_supervisor with every text
SpecSupervisors == InitSupervisors /\ [][NextSupervisors]_vars

----------------------------------------------------------------------------
(* Properties of the draft *)

\* C6: validate_project validates the stored name, then the stored code,
\* then wants a supervisor; what it raises is what the first failing check
\* raises, and it raises nothing exactly when all three pass.
C6_ValidateAllOrder ==
    last.op = "validate_project" =>
        LET name_error == validate_project_name(project_information, projects[1],
                              project_information.project_name).error
            code_error == validate_project_code(project_information, project_codes[1],
                              project_information.project_code).error
            list_error == IF project_information.supervisor_list = <<>>
                          THEN MsgNoSupervisors ELSE NoError
        IN  /\ name_error # NoError => last.error = name_error
            /\ (name_error = NoError /\ code_error # NoError) => last.error = code_error
            /\ (name_error = NoError /\ code_error = NoError) => last.error = list_error
            /\ last.error = NoError <=>
                  (name_error = NoError /\ code_error = NoError /\ list_error = NoError)

\* validate_project raised the name's error on a draft whose code fails too
C6_Witness ==
    /\ last.op = "validate_project"
    /\ last.error = MsgNameTaken
    /\ validate_project_code(project_information, project_codes[1],
                             project_information.project_code).error # NoError
    /\ project_information.supervisor_list = <<>>

\* A name of lowercase a-z and underscores only
OnlyLowercaseAndUnderscore(s) ==
    \A i \in DOMAIN s : s[i] \in Range(LowerSeq) \cup {"_"}

\* C7: validate_project_name raises nothing for every non-empty name of
\* lowercase a-z and underscores that is not in the snapshot, and raises
\* for the empty name, for every name with another character and for
\* every name in the snapshot.
C7_NameAcceptedIffLegal ==
    last.op = "validate_project_name" =>
        (last.error = NoError <=>
            /\ Len(last.arg) > 0
            /\ OnlyLowercaseAndUnderscore(last.arg)
            /\ last.arg \notin projects[1])

\* "p" or "P", then digits only
LetterPThenDigits(s) ==
    /\ Len(s) >= 1
    /\ s[1] \in {"p", "P"}
    /\ \A i \in 2..Len(s) : s[i] \in Range(DigitSeq)

\* No entry of the snapshot is the code in another case
NotInSnapshotIgnoringCase(s, codes) == \A c \in codes : Lower(c) # Lower(s)

\* C8: with has_production_code set, validate_project_code raises nothing
\* only for a code that is p or P followed by digits, six characters long
\* and not in the snapshot.
C8_ProductionCodeGrammar ==
    (last.op = "validate_project_code" /\ project_information.has_production_code
        /\ last.error = NoError) =>
            /\ LetterPThenDigits(last.arg)
            /\ Len(last.arg) = 6
            /\ Lower(last.arg) \notin project_codes[1]

\* C9: a code of p or P and five digits that the snapshot does not hold
\* (in any case) passes validate_project_code while has_production_code is
\* set; validated with the flag cleared, by validate_project_code or by
\* validate_project on the stored code, such a code fails.
C9_ProductionCodeAndFlag ==
    /\ (/\ last.op = "validate_project_code"
        /\ project_information.has_production_code
        /\ LetterPThenDigits(last.arg) /\ Len(last.arg) = 6
        /\ NotInSnapshotIgnoringCase(last.arg, project_codes[1]))
            => last.error = NoError
    /\ (/\ last.op = "validate_project_code"
        /\ ~project_information.has_production_code
        /\ LetterPThenDigits(last.arg) /\ Len(last.arg) = 6)
            => last.error = MsgCodeThreeLetter
    /\ (/\ last.op = "validate_project"
        /\ ~project_information.has_production_code
        /\ LetterPThenDigits(project_information.project_code)
        /\ Len(project_information.project_code) = 6)
            => /\ last.error # NoError
               /\ validate_project_name(project_information, projects[1],
                      project_information.project_name).error = NoError
                     => last.error = MsgCodeThreeLetter

\* validate_project failed on the code alone: a production code, stored in
\* lower case, validated with the flag cleared
C9_Witness ==
    /\ last.op = "validate_project"
    /\ last.error = MsgCodeThreeLetter
    /\ ~project_information.has_production_code
    /\ project_code_lineedit = <<"P","1","1","1","1","1">>
    /\ project_information.project_code = <<"p","1","1","1","1","1">>
    /\ project_information.supervisor_list # <<>>

\* C10: the supervisor list never holds a person twice; add_supervisor
\* with a text that finds a person already in the list raises the
\* already-added error and leaves the list as it was.
C10_NoSupervisorTwice ==
    /\ [](\A i, j \in DOMAIN project_information.supervisor_list :
             project_information.supervisor_list[i].id =
                project_information.supervisor_list[j].id => i = j)
    /\ [][\A text \in Identifiers :
             (/\ controller_add_supervisor(text)
              /\ \E k \in DOMAIN project_information.supervisor_list :
                    /\ get_shotgrid_user(remote, text) # <<>>
                    /\ project_information.supervisor_list[k].id =
                          get_shotgrid_user(remote, text)[1].id)
                => /\ last'.error = MsgSupervisorAdded
                   /\ project_information'.supervisor_list =
                         project_information.supervisor_list]_vars

\* The same text was added twice in a row and the second call raised
C10_Witness ==
    /\ last = [op |-> "add_supervisor", arg |-> <<"y">>, error |-> MsgSupervisorAdded]
    /\ Len(project_information.supervisor_list) = 2
    /\ project_information.supervisor_list[2].name = <<"a">>

----------------------------------------------------------------------------
(* Supervisors and people *)

\* The ids of the people in a supervisor list
SupervisorIds(list) == {list[k].id : k \in DOMAIN list}

\* A supervisor list without the person of this id
WithoutPerson(list, id) == SelectSeq(list, LAMBDA e : e.id # id)

\* C11: remove_supervisor raises the not-on-the-list error and leaves the
\* list as it was when its text finds nobody or finds a person who is not in
\* the list; otherwise it raises nothing and the list loses that person and
\* nobody else.
C11_RemoveSupervisor ==
    [][\A text \in Identifiers :
          controller_remove_supervisor(text) =>
             LET found == get_shotgrid_user(remote, text)
                 list == project_information.supervisor_list
             IN  IF found = <<>> \/ found[1].id \notin SupervisorIds(list)
                 THEN /\ last'.error = MsgSupervisorNotOnList
                      /\ project_information' = project_information
                 ELSE /\ last'.error = NoError
                      /\ project_information'.supervisor_list =
                            WithoutPerson(list, found[1].id)
                      /\ Len(project_information'.supervisor_list) = Len(list) - 1
                      /\ project_information' =
                            [project_information EXCEPT !.supervisor_list =
                                project_information'.supervisor_list]]_vars

\* The second of three supervisors was removed, through her login
C11_Witness ==
    /\ last = [op |-> "remove_supervisor", arg |-> <<"y">>, error |-> NoError]
    /\ Len(project_information.supervisor_list) = 2
    /\ SupervisorIds(project_information.supervisor_list) = {1, 3}

\* The supervisors of the draft recorded as Artist
ArtistSupervisors ==
    {k \in DOMAIN project_information.supervisor_list :
        project_information.supervisor_list[k].permission_rule_set = Artist}

\* C12: a permission update is sent for a supervisor exactly when the record
\* in the draft says Artist, and it sets the Supervisor rule set, id 190: no
\* update is ever sent for a supervisor recorded otherwise, none twice, and
\* once the Project create is sent every supervisor recorded as Artist has
\* had one.
C12_UpdateIffArtist ==
    /\ \A u \in UpdateCalls :
          /\ calls[u].entity_type = "HumanUser"
          /\ calls[u].data = [permission_rule_set |->
                                 [id |-> 190, name |-> "Supervisor",
                                  type |-> "PermissionRuleSet"]]
          /\ \E k \in ArtistSupervisors :
                project_information.supervisor_list[k].id = calls[u].entity_id
          /\ \A v \in UpdateCalls : calls[v].entity_id = calls[u].entity_id => v = u
    /\ ProjectCalls # {} =>
          /\ Cardinality(UpdateCalls) = Cardinality(ArtistSupervisors)
          /\ \A k \in ArtistSupervisors :
                \E u \in UpdateCalls :
                   /\ calls[u].entity_id = project_information.supervisor_list[k].id
                   /\ calls[u].raised = NoError

\* The Project create was sent for a Manager and an Artist: one update
C12_Witness ==
    /\ ProjectCalls # {}
    /\ Len(project_information.supervisor_list) = 2
    /\ \E k \in DOMAIN project_information.supervisor_list :
          project_information.supervisor_list[k].permission_rule_set = Manager
    /\ Cardinality(UpdateCalls) = 1

MaxTextLen == 2

\* The characters of the names and logins of the site, and one of neither
TextAlphabet == {"a", "b", "c", "x", "y", "q"}

\* A call of get_shotgrid_user(input)
call_get_shotgrid_user ==
    /\ last' = [op |-> "get_shotgrid_user", arg |-> input, error |-> NoError,
                result |-> get_shotgrid_user(remote, input)]
    /\ UNCHANGED <<project_information, project_code_lineedit>>
    /\ MainFrame

InitFind ==
    /\ input \in Strings(TextAlphabet, MaxTextLen)
    /\ \E rule_set \in InitialRuleSets :
          MainWidgetShown(InitialProjectInformation, NoOperation, SiteProjectNames,
                          SiteProjectCodes, rule_set)

NextFind == call_get_shotgrid_user

\* get_shotgrid_user on every text
SpecFind == InitFind /\ [][NextFind]_vars

\* The people whose name contains the text, and those whose login is the text
NameMatches(text) ==
    {id \in UserIds :
        \E i \in 0..(Len(HumanUsers[id].name) - Len(text)) :
            SubSeq(HumanUsers[id].name, i + 1, i + Len(text)) = text}

LoginMatches(text) == {id \in UserIds : HumanUsers[id].login = text}

\* C13: get_shotgrid_user returns whom the name lookup finds whenever it
\* finds somebody, also when the text is another person's login; it returns
\* whom the login lookup finds only when the name lookup finds nobody, and
\* None only when neither finds anybody.
C13_NameBeforeLogin ==
    last.op = "get_shotgrid_user" =>
        /\ NameMatches(last.arg) # {} =>
              last.result # <<>> /\ last.result[1].id \in NameMatches(last.arg)
        /\ (NameMatches(last.arg) = {} /\ LoginMatches(last.arg) # {}) =>
              last.result # <<>> /\ last.result[1].id \in LoginMatches(last.arg)
        /\ last.result = <<>> <=>
              (NameMatches(last.arg) = {} /\ LoginMatches(last.arg) = {})

\* "a" is the login of the third person and in the names of the first two
C13_Witness ==
    /\ last.op = "get_shotgrid_user"
    /\ last.arg = <<"a">>
    /\ 3 \in LoginMatches(last.arg)
    /\ last.result # <<>>
    /\ last.result[1].id # 3

----------------------------------------------------------------------------
(* The year of the acting user *)

\* The years datetime.datetime.now() may fall in; 2024 is a leap year
NowYears == {2023, 2024, 2025}

\* Every day of those years
YearNows ==
    {now \in [year : NowYears, day : 1..366] : now.day <= DaysInYear(now.year)}

\* sg_lichting tags L2020 .. L2039, each with the year it names
Cohorts ==
    {[graduation_year |-> 2020 + 10 * c + d,
      sg_lichting |-> <<"L", "2", "0", DigitSeq[c + 3], DigitSeq[d + 1]>>] :
        c \in 0..1, d \in 0..9}

\* A call of get_current_student_year(input.graduation_year) at input.now
call_get_current_student_year ==
    /\ last' = [op |-> "get_current_student_year", arg |-> input, error |-> NoError,
                result |-> get_current_student_year(input.graduation_year, input.now)]
    /\ UNCHANGED <<project_information, project_code_lineedit>>
    /\ MainFrame

\* A call of set_user_information at input.now for a user whose sg_lichting
\* is input.sg_lichting
call_set_user_information ==
    /\ user_information' =
          set_user_information(user_information,
              [UserObject(remote, 1) EXCEPT !.sg_lichting = input.sg_lichting],
              input.now)
    /\ last' = [op |-> "set_user_information", arg |-> input, error |-> NoError]
    /\ UNCHANGED <<screen, project_information, projects, project_codes,
                   project_code_lineedit, shotgrid_connection, remote, threads, calls,
                   emitted, pending, input>>

InitYear ==
    /\ \E cohort \in Cohorts, now \in YearNows :
          input = [graduation_year |-> cohort.graduation_year,
                   sg_lichting |-> cohort.sg_lichting, now |-> now]
    /\ MainWidgetShown(InitialProjectInformation, NoOperation, SiteProjectNames,
                       SiteProjectCodes, <<Artist, Artist, Supervisor>>)

NextYear ==
    \/ call_get_current_student_year
    \/ call_set_user_information

\* get_current_student_year and set_user_information for every cohort on
\* every day
SpecYear == InitYear /\ [][NextYear]_vars

C15_StudentYearInRange ==
    user_information # <<>> => user_information[1].student_year \in 1..4

\* set_user_information stores the year the tag names
GraduationYearOfTag ==
    last.op = "set_user_information" =>
        user_information[1].student_graduation_year = last.arg.graduation_year

----------------------------------------------------------------------------
(* One submission *)

\* How far the creation thread has come
ThreadProgress(step) ==
    CASE step = NotStarted -> 0
      [] step = "supervisors" -> 1
      [] step = "project" -> 2
      [] step = "pipeline" -> 3
      [] step = "finished" -> 4

\* C16: a session starts at most one creation thread: once it is started
\* the main widget is never shown again, so no slot validates or changes the
\* draft and the create project button starts no second thread, while the
\* thread runs and after it has succeeded or failed.
C16_OneSubmission ==
    /\ [](threads.project_creation_thread # NotStarted => screen # "main")
    /\ [][threads.project_creation_thread # NotStarted =>
             /\ project_information' = project_information
             /\ last' = last
             /\ ThreadProgress(threads'.project_creation_thread)
                   >= ThreadProgress(threads.project_creation_thread)
             /\ threads'.i >= threads.i
             /\ Len(threads'.formatted_supervisors_list)
                   >= Len(threads.formatted_supervisors_list)]_vars

\* The thread has failed and the error widget is shown
C16_Witness ==
    /\ threads.project_creation_thread = "finished"
    /\ Failures # {}
    /\ screen = "error"

----------------------------------------------------------------------------
(* Properties of the project code *)

\* A code of the grammar the flag asks for: p or P and five digits, or
\* three letters
WellFormedCode(has_code, s) ==
    IF has_code
    THEN LetterPThenDigits(s) /\ Len(s) = 6
    ELSE Len(s) = 3 /\ \A i \in DOMAIN s : s[i] \in Range(LowerSeq) \cup Range(UpperSeq)

\* C17: validate_project_code raises the already-taken error for every
\* well-formed code that equals an entry of the snapshot when case is
\* ignored, whatever the case of the code and of the entry.
C17_UniqueIgnoringCase ==
    (/\ last.op = "validate_project_code"
     /\ WellFormedCode(project_information.has_production_code, last.arg)
     /\ ~NotInSnapshotIgnoringCase(last.arg, project_codes[1]))
        => last.error = MsgCodeTaken

\* C18: with has_production_code cleared, validate_project_code raises
\* nothing exactly for the codes of three letters, of either case, that are
\* not in the snapshot; a code with another character, or shorter or longer
\* than three, is rejected.
C18_ThreeLetterGrammar ==
    (last.op = "validate_project_code" /\ ~project_information.has_production_code) =>
        (last.error = NoError <=>
            /\ WellFormedCode(FALSE, last.arg)
            /\ Lower(last.arg) \notin project_codes[1])

----------------------------------------------------------------------------
(* The payload of the Project create *)

\* One reference of the given entity type for each supervisor of the draft,
\* in the order of the list
SupervisorReferences(entity_type) ==
    [k \in 1..Len(project_information.supervisor_list) |->
        [id |-> project_information.supervisor_list[k].id, type |-> entity_type]]

\* Every Project create carries the draft: name and tank_name the project
\* name, sg_projectcode the stored code, users and sg_supervisors one
\* reference of the given type for each supervisor, sg_status "Active"
ProjectPayloadOfDraft(entity_type) ==
    \A c \in ProjectCalls :
        /\ calls[c].data.name = project_information.project_name
        /\ calls[c].data.tank_name = project_information.project_name
        /\ calls[c].data.sg_projectcode = project_information.project_code
        /\ calls[c].data.users = SupervisorReferences(entity_type)
        /\ calls[c].data.sg_supervisors = SupervisorReferences(entity_type)
        /\ calls[c].data.sg_status = "Active"

\* C19 (as the code has it): the payload of the Project create is built from
\* the draft as it stands at submission, and users and sg_supervisors are
\* the same list of one {id, type "HumanUser"} for each supervisor.
C19_ProjectPayload == ProjectPayloadOfDraft("HumanUser")

\* C19 (as stated): the same, the references being {id, type "Person"}.
C19_ProjectPayloadPerson == ProjectPayloadOfDraft("Person")

\* A Project create was sent for two supervisors and a code typed in capitals
C19_Witness ==
    /\ ProjectCalls # {}
    /\ Len(project_information.supervisor_list) = 2
    /\ project_code_lineedit = <<"P","1","2","3","4","5">>
    /\ project_information.project_code = <<"p","1","2","3","4","5">>

----------------------------------------------------------------------------
(* What validation stores *)

NextDraft ==
    \/ call_validate_project_name
    \/ controller_validate_project_code(input)
    \/ \E has_code \in BOOLEAN : controller_set_production_code(has_code)

\* validate_project_name and validate_project_code on every text, as a name
\* and as a code, under either flag
SpecDraft == InitName /\ [][NextDraft]_vars

\* A capital letter in lower case, any other character as it is
LowerCaseOf(c) ==
    CASE c = "A" -> "a"
      [] c = "P" -> "p"
      [] OTHER -> c

\* C20: validate_project_name and validate_project_code store their
\* argument before they validate it: after either call, raised or not,
\* project_name is the argument, or project_code the argument in lower
\* case, and no other field of the draft has changed.
C20_StoredBeforeValidated ==
    [][/\ call_validate_project_name =>
             /\ project_information'.project_name = input
             /\ project_information' =
                   [project_information EXCEPT !.project_name = input]
       /\ controller_validate_project_code(input) =>
             /\ Len(project_information'.project_code) = Len(input)
             /\ \A i \in DOMAIN input :
                   project_information'.project_code[i] = LowerCaseOf(input[i])
             /\ project_information' =
                   [project_information EXCEPT
                       !.project_code = project_information'.project_code]]_vars

\* A code that was refused is in the draft in lower case, beside a name
\* that was refused
C20_Witness ==
    /\ last.op = "validate_project_code"
    /\ last.error # NoError
    /\ last.arg = <<"A", "1", "A">>
    /\ project_information.project_code = <<"a", "1", "a">>
    /\ project_information.project_name = <<"A", "1", "A">>

----------------------------------------------------------------------------
(* The setters *)

\* Arguments of the setters, on and off the choices of the widgets
SetterRenderEngines == {"All", "Arnold", ""}

SetterProjectTypes == {"Fiction", "Documentary", "fiction"}

SetterFps == {25, 0, -24}

\* Texts for the name and the code while the setters are called
SetterTexts == NameInputs \cup CodeInputs

call_set_has_production_code(has_code) ==
    /\ project_information' = set_has_production_code(project_information, has_code)
    /\ last' = [op |-> "set_has_production_code", arg |-> has_code, error |-> NoError]
    /\ UNCHANGED project_code_lineedit
    /\ MainFrame

call_set_render_engine(render_engine) ==
    /\ project_information' = set_render_engine(project_information, render_engine)
    /\ last' = [op |-> "set_render_engine", arg |-> render_engine, error |-> NoError]
    /\ UNCHANGED project_code_lineedit
    /\ MainFrame

call_set_project_type(project_type) ==
    /\ project_information' = set_project_type(project_information, project_type)
    /\ last' = [op |-> "set_project_type", arg |-> project_type, error |-> NoError]
    /\ UNCHANGED project_code_lineedit
    /\ MainFrame

call_set_fps(fps) ==
    /\ project_information' = set_fps(project_information, fps)
    /\ last' = [op |-> "set_fps", arg |-> fps, error |-> NoError]
    /\ UNCHANGED project_code_lineedit
    /\ MainFrame

InitSetters ==
    /\ input \in SetterTexts
    /\ MainWidgetShown(InitialProjectInformation, NoOperation, SiteProjectNames,
                       SiteProjectCodes, <<Artist, Artist, Supervisor>>)

NextSetters ==
    \/ call_validate_project_name
    \/ controller_validate_project_code(input)
    \/ \E has_code \in BOOLEAN : call_set_has_production_code(has_code)
    \/ \E render_engine \in SetterRenderEngines : call_set_render_engine(render_engine)
    \/ \E project_type \in SetterProjectTypes : call_set_project_type(project_type)
    \/ \E fps \in SetterFps : call_set_fps(fps)

\* The setters of the draft, between validations of a name and a code
SpecSetters == InitSetters /\ [][NextSetters]_vars

\* C21: set_has_production_code changes the flag and nothing else: it
\* raises nothing, validates nothing, and the code (as stored), the name, the
\* supervisors, the render engine, the project type and the fps stay.
C21_FlagOnly ==
    [][\A has_code \in BOOLEAN :
          call_set_has_production_code(has_code) =>
             /\ last'.error = NoError
             /\ project_information'.has_production_code = has_code
             /\ \A f \in DOMAIN project_information \ {"has_production_code"} :
                   project_information'[f] = project_information[f]
             /\ DOMAIN project_information' = DOMAIN project_information]_vars

\* The flag was cleared over a production code, which is still stored
C21_Witness ==
    /\ last = [op |-> "set_has_production_code", arg |-> FALSE, error |-> NoError]
    /\ ~project_information.has_production_code
    /\ project_information.project_code = <<"p","1","2","3","4","5">>

\* A step of one setter: own is its field, value its argument; called after
\* itself with the same argument it changes nothing at all
SetterStep(op, own, value) ==
    /\ last'.error = NoError
    /\ project_information'[own] = value
    /\ \A f \in DOMAIN project_information \ {own} :
          project_information'[f] = project_information[f]
    /\ DOMAIN project_information' = DOMAIN project_information
    /\ (last.op = op /\ last.arg = value) => project_information' = project_information

\* C22: set_render_engine, set_project_type and set_fps raise nothing for
\* any argument, change only their own field, and called twice with the
\* same value leave the draft as one call does.
C22_Setters ==
    [][/\ \A render_engine \in SetterRenderEngines :
             call_set_render_engine(render_engine) =>
                SetterStep("set_render_engine", "render_engine", render_engine)
       /\ \A project_type \in SetterProjectTypes :
             call_set_project_type(project_type) =>
                SetterStep("set_project_type", "project_type", project_type)
       /\ \A fps \in SetterFps :
             call_set_fps(fps) => SetterStep("set_fps", "project_fps", fps)]_vars

\* An fps no spin box offers was set, beside an engine that is no choice
C22_Witness ==
    /\ last = [op |-> "set_fps", arg |-> -24, error |-> NoError]
    /\ project_information.project_fps = -24
    /\ project_information.render_engine = ""

----------------------------------------------------------------------------
(* Termination of the threads *)

\* A started QThread runs, and every remote call returns or raises: each
\* step of a thread that can be taken is taken
SpecLive ==
    /\ Init
    /\ [][Next]_vars
    /\ WF_vars(ShotGridConnectionThread_run)
    /\ WF_vars(create_project_supervisor)
    /\ WF_vars(create_project_project)
    /\ WF_vars(create_project_pipeline_configuration)

\* What the connection thread reported
ConnectionOutcomes ==
    {i \in DOMAIN emitted :
        emitted[i].signal \in {"shotgrid_connection_successful",
                               "shotgrid_connection_failed"}}

\* C23: a started thread reaches its outcome: the creation thread, once
\* started, ends having emitted exactly one of success and failure, the
\* connection thread, once started, ends having emitted exactly one of
\* connected and failed; no thread ever emits a second outcome.
C23_ThreadsTerminate ==
    /\ (threads.project_creation_thread \notin {NotStarted, "finished"})
          ~> (/\ threads.project_creation_thread = "finished"
              /\ Cardinality(Successes) + Cardinality(Failures) = 1)
    /\ (threads.shotgrid_connection_thread = "running")
          ~> (/\ threads.shotgrid_connection_thread = "finished"
              /\ Cardinality(ConnectionOutcomes) = 1)
    /\ [](/\ Cardinality(Successes) + Cardinality(Failures) <= 1
          /\ Cardinality(ConnectionOutcomes) <= 1)

\* Both threads have ended, the second with success, and the slots have run
C23_Witness ==
    /\ threads.shotgrid_connection_thread = "finished"
    /\ threads.project_creation_thread = "finished"
    /\ Cardinality(Successes) = 1
    /\ pending = <<>>

----------------------------------------------------------------------------
(* The connection and the acting user *)

ConnectionFailures ==
    {i \in DOMAIN emitted : emitted[i].signal = "shotgrid_connection_failed"}

\* C24: a failed connection is the end of the session: once the
\* connection thread has reported failure it is never started again, only
\* that one outcome exists, whatever was read is never used (nothing is
\* validated or looked up), and neither the username widget nor the main
\* widget is ever shown, so no draft is edited or submitted.
C24_FailedConnectionIsFinal ==
    ConnectionFailures # {} =>
        /\ threads.shotgrid_connection_thread = "finished"
        /\ Cardinality(ConnectionOutcomes) = 1
        /\ screen \in {"loading", "connection_error"}
        /\ last = NoOperation
        /\ project_information = InitialProjectInformation
        /\ user_information = <<>>
        /\ threads.project_creation_thread = NotStarted
        /\ calls = <<>>

\* The connection failed while reading the codes, the names already read,
\* and the error widget is shown
C24_Witness ==
    /\ screen = "connection_error"
    /\ ConnectionFailures # {}
    /\ projects # <<>>
    /\ project_codes = <<>>

\* C25: whenever the creation thread is started the acting user's
\* information has been set, whichever way the user was identified, and
\* once set it is never set again.
C25_UserInformationSet ==
    /\ [](threads.project_creation_thread # NotStarted => user_information # <<>>)
    /\ [][user_information # <<>> => user_information' = user_information]_vars

\* C26: after add_supervisor(x) has returned the name n, remove_supervisor(n)
\* raises nothing and the list is what it was before the add.
C26_AddRemoveRoundTrip ==
    [][\A text \in Identifiers :
          (/\ last.op = "add_supervisor"
           /\ last.error = NoError
           /\ text = project_information.supervisor_list[
                         Len(project_information.supervisor_list)].name
           /\ controller_remove_supervisor(text))
              => /\ last'.error = NoError
                 /\ project_information'.supervisor_list =
                       SubSeq(project_information.supervisor_list, 1,
                              Len(project_information.supervisor_list) - 1)]_vars

\* C27: no draft operation runs before the connection thread has ended with
\* success: whenever the username widget or the main widget is shown, or a
\* validation or lookup has run, the ShotGrid session exists, both snapshots
\* are read and the connection thread has reported success.
C27_ConnectedBeforeDraft ==
    (screen \in {"username", "main"} \/ last # NoOperation
        \/ threads.project_creation_thread # NotStarted) =>
        /\ shotgrid_connection
        /\ projects = <<SiteProjectNames>>
        /\ project_codes = <<SiteProjectCodes>>
        /\ threads.shotgrid_connection_thread = "finished"
        /\ \E i \in DOMAIN emitted : emitted[i].signal = "shotgrid_connection_successful"
        /\ ConnectionFailures = {}

\* A name was validated against the snapshot in a connected session
C27_Witness ==
    /\ screen = "main"
    /\ last = [op |-> "validate_project_name", arg |-> <<"a">>, error |-> MsgNameTaken]
    /\ shotgrid_connection
    /\ <<"a">> \in projects[1]

\* The sessions of Spec pass through the states the specifications of the
\* methods start in
MainWidgetFirstShown ==
    \E names \in {SiteProjectNames} :
        MainWidgetShown(InitialProjectInformation, NoOperation, names, SiteProjectCodes,
                        <<Artist, Artist, Supervisor>>)

NamedAndSupervisedReached ==
    MainWidgetShown(NamedAndSupervised,
                    [op |-> "add_supervisor", arg |-> <<"a">>, error |-> NoError],
                    SiteProjectNames, SiteProjectCodes, <<Artist, Artist, Supervisor>>)

====
